---- MODULE Spec2Model ----
(***************************************************************************)
(* A model of conversion_server.py: the Flask handlers convert_model       *)
(* (POST /convert) and health (GET /health), the scratch directories they  *)
(* create on the local file system, and the external libraries they call.  *)
(* Several requests are handled concurrently (Flask's threaded server);    *)
(* they share only the file system.                                        *)
(***************************************************************************)
EXTENDS Naturals, Sequences, FiniteSets, TLC

(***************************************************************************)
(* Bounds of the model.                                                    *)
(***************************************************************************)
\* requests the server handles in one behaviour
NumReq == 2
\* distinct random suffixes tempfile.mkdtemp can draw for 'tfjs_convert_*'
NumDirNames == 2
\* longest 'weightsManifest' list an uploaded model.json holds
MaxManifest == 2

Reqs == 1..NumReq
DirNames == 1..NumDirNames
\* Python's None, for tmp_dir
None == 0

(***************************************************************************)
(* JSON.  A text is what is on the wire or in a file; a value is what      *)
(* json.load returns.  An object text lists its members in order and may   *)
(* repeat a key; it is either pretty-printed or compact.                   *)
(***************************************************************************)
Atom(s) == [t |-> "atom", a |-> s, l |-> <<>>]
JNull == [t |-> "null", a |-> "", l |-> <<>>]
JList(es) == [t |-> "list", a |-> "", l |-> es]

EntryObj(hasPaths, paths, weights) ==
    [t |-> "obj", hasPaths |-> hasPaths, paths |-> paths, weights |-> weights]
EntryNum == [t |-> "num", hasPaths |-> FALSE, paths |-> <<>>, weights |-> ""]

ObjectText(pairs, pretty) == [form |-> "object", pairs |-> pairs, pretty |-> pretty]
ArrayText == [form |-> "array", pairs |-> <<>>, pretty |-> FALSE]
\* not JSON at all
BadText == [form |-> "bad", pairs |-> <<>>, pretty |-> FALSE]
\* well-formed, but nested deeper than the interpreter's recursion limit
DeepText == [form |-> "deep", pairs |-> <<>>, pretty |-> FALSE]
\* a form field that is not part of the request
NoField == [form |-> "absent", pairs |-> <<>>, pretty |-> FALSE]

\* d[k] = v on a Python dict: an existing key keeps its place
SetItem(d, k, v) ==
    IF \E i \in 1..Len(d) : d[i][1] = k
    THEN [i \in 1..Len(d) |-> IF d[i][1] = k THEN <<k, v>> ELSE d[i]]
    ELSE Append(d, <<k, v>>)

RECURSIVE DictFromPairs(_)
DictFromPairs(p) ==
    IF p = <<>> THEN <<>>
    ELSE SetItem(DictFromPairs(SubSeq(p, 1, Len(p) - 1)), p[Len(p)][1], p[Len(p)][2])

HasKey(d, k) == \E i \in 1..Len(d) : d[i][1] = k
GetItem(d, k) == d[CHOOSE i \in 1..Len(d) : d[i][1] = k][2]

NoValue == [kind |-> "none", items |-> <<>>]

\* json.load / json.loads: the value, or the exception raised
JsonLoads(text) ==
    CASE text.form = "object" ->
           [exc |-> "", value |-> [kind |-> "dict", items |-> DictFromPairs(text.pairs)]]
      [] text.form = "array" ->
           [exc |-> "", value |-> [kind |-> "list", items |-> <<>>]]
      [] text.form = "deep" -> [exc |-> "RecursionError", value |-> NoValue]
      [] OTHER -> [exc |-> "JSONDecodeError", value |-> NoValue]

\* json.dump: compact, one member per key
JsonDump(value) ==
    [form |-> IF value.kind = "dict" THEN "object" ELSE "array",
     pairs |-> value.items, pretty |-> FALSE]

(***************************************************************************)
(* What the external libraries and the framework return.                   *)
(***************************************************************************)
TfVersion == "2.15.0"
TfjsVersion == "4.17.0"
\* the package is not in the interpreter's environment
LibAbsent == "<absent>"
\* libs[name] is the installed version, or LibAbsent
LibStates == [tensorflow : {TfVersion, LibAbsent}, tensorflowjs : {TfjsVersion, LibAbsent}]
AllInstalled == [tensorflow |-> TfVersion, tensorflowjs |-> TfjsVersion]

\* `import name`: the module's __version__, or ImportError
ImportLib(l, name) ==
    IF l[name] = LibAbsent
    THEN [exc |-> "ImportError", version |-> ""]
    ELSE [exc |-> "", version |-> l[name]]

NoModel == [loaded |-> FALSE, topology |-> <<>>, weights |-> <<>>]
DefaultConverter == [optimizations |-> <<>>, supported_types |-> <<>>]
NoBytes == [tflite |-> FALSE, model |-> NoModel, converter |-> DefaultConverter]
\* converter.convert(): the flatbuffer is a function of the model and the settings
TFLiteBytes(m, c) == [tflite |-> TRUE, model |-> m, converter |-> c]

\* str.lower() on the values the quantize parameter takes
Lower(s) ==
    CASE s = "True" -> "true"
      [] s = "TRUE" -> "true"
      [] OTHER -> s

\* the query parameter is not in the URL
NoArg == "<absent>"
\* request.args.get / request.form.get with a default
ArgsGet(v, default) == IF v = NoArg THEN default ELSE v
FormGet(v, default) == IF v = NoField THEN default ELSE v

(***************************************************************************)
(* The requests and the environment the model draws from.                  *)
(***************************************************************************)
E1 == EntryObj(TRUE, <<"group1-shard1of1.bin">>, "dense/kernel")
E2 == EntryObj(TRUE, <<"group1-shard1of2.bin", "group1-shard2of2.bin">>, "dense/bias")
E3 == EntryObj(FALSE, <<>>, "dense/kernel")
Entries == {E1, E2, E3, EntryNum}

ManifestLists == UNION {[1..n -> Entries] : n \in 0..MaxManifest}
ManifestVals == {JList(l) : l \in ManifestLists} \cup {JNull, Atom("")}

TopoPair == << <<"modelTopology", Atom("sequential_1")>> >>
TopoPair2 == << <<"modelTopology", Atom("sequential_2")>> >>
FormatPair == << <<"format", Atom("layers-model")>> >>
ManifestPair(v) == << <<"weightsManifest", v>> >>

\* every object text the bounds allow, and the texts that are no object
RichDocs ==
    {ObjectText(a \o b \o c, p) :
        a \in {<<>>, TopoPair},
        b \in {<<>>} \cup {ManifestPair(v) : v \in ManifestVals},
        c \in {<<>>, TopoPair2},
        p \in BOOLEAN}
    \cup {ArrayText, BadText, DeepText}

\* what the Teachable Machine exports: one manifest group, one shard
ExportedDoc == ObjectText(TopoPair \o ManifestPair(JList(<<E1>>)) \o FormatPair, TRUE)

SmallDocs ==
    {ExportedDoc,
     ObjectText(TopoPair \o FormatPair, TRUE),
     ObjectText(TopoPair \o ManifestPair(JNull), FALSE),
     ObjectText(TopoPair \o ManifestPair(JList(<<E2, E3>>)) \o TopoPair2, TRUE),
     ArrayText, BadText}

WellFormedMetadata == ObjectText(<< <<"classes", Atom("cat,dog")>> >>, FALSE)
MetadataFields == {NoField, WellFormedMetadata, BadText, DeepText}
QuantizeArgs == {NoArg, "true", "True", "1"}
WeightBlobs == {"blob_a", "blob_b"}

\* the step of convert_model at which the environment makes a call fail
FailPoints == {"none", "mkdtemp", "save", "load", "convert", "write", "send"}

Request(hm, hw, doc, blob, md, q) ==
    [has_model_json |-> hm, has_weights_bin |-> hw, model_json |-> doc,
     weights_bin |-> blob, metadata |-> md, quantize |-> q]

\* an upload that is not part of the request has no content to vary
RequestsOver(Docs, Blobs, Metas, Quants) ==
    {Request(TRUE, TRUE, d, b, m, q) : d \in Docs, b \in Blobs, m \in Metas, q \in Quants}
    \cup {Request(hm, hw, BadText, "", m, q) :
            hm \in BOOLEAN, hw \in {FALSE}, m \in Metas, q \in Quants}
    \cup {Request(FALSE, TRUE, BadText, "", m, q) : m \in Metas, q \in Quants}

CanonRequest == Request(TRUE, TRUE, ExportedDoc, "blob_a", NoField, NoArg)

(***************************************************************************)
(* The pure parts of convert_model.                                        *)
(***************************************************************************)
\* quantize = request.args.get('quantize', 'false').lower() == 'true'
QuantizeFlag(arg) == Lower(ArgsGet(arg, "false")) = "true"

\* metadata = json.loads(metadata_str), {} on json.JSONDecodeError; any
\* other exception json.loads raises is not caught here
ParseMetadata(field) ==
    LET res == JsonLoads(FormGet(field, ObjectText(<<>>, FALSE)))
    IN  IF res.exc = "JSONDecodeError"
        THEN [exc |-> "", value |-> [kind |-> "dict", items |-> <<>>]]
        ELSE res

\* a patch that only fills in a missing 'paths'
SetPathsIfMissing(e) == IF e.hasPaths THEN e ELSE [e EXCEPT !.hasPaths = TRUE, !.paths = <<"weights.bin">>]

\* manifest['paths'] = ['weights.bin']
SetPaths(e) == [e EXCEPT !.hasPaths = TRUE, !.paths = <<"weights.bin">>]

\* the loop over model_config['weightsManifest']: the patched value, whether
\* model.json is rewritten, or the exception the loop raises
PatchManifest(config) ==
    IF config.kind = "dict" /\ HasKey(config.items, "weightsManifest")
    THEN LET m == GetItem(config.items, "weightsManifest")
         IN  CASE m.t = "list" /\ \A i \in 1..Len(m.l) : m.l[i].t = "obj" ->
                    [exc |-> "", rewrite |-> TRUE,
                     value |-> [config EXCEPT !.items =
                                  SetItem(@, "weightsManifest",
                                          JList([i \in 1..Len(m.l) |-> SetPaths(m.l[i])]))]]
               [] m.t = "atom" /\ m.a = "" ->
                    [exc |-> "", rewrite |-> TRUE, value |-> config]
               [] OTHER -> [exc |-> "TypeError", rewrite |-> FALSE, value |-> config]
    ELSE [exc |-> "", rewrite |-> FALSE, value |-> config]

\* line 89: model_config.get(...) needs a dict
TopologyKeys(config) == IF config.kind = "dict" THEN "" ELSE "AttributeError"

\* if quantize: optimizations = [Optimize.DEFAULT], supported_types = [float16]
ConfigureConverter(q) ==
    IF q
    THEN [optimizations |-> <<"DEFAULT">>, supported_types |-> <<"float16">>]
    ELSE DefaultConverter

\* tfjs.converters.load_keras_model(model_json_path): reads model.json and,
\* beside it, every file the manifest's paths name
LoadKerasModel(files) ==
    IF "model.json" \notin DOMAIN files THEN [exc |-> "FileNotFoundError", model |-> NoModel]
    ELSE LET res == JsonLoads(files["model.json"].data)
             cfg == res.value
         IN  IF res.exc # "" \/ cfg.kind # "dict"
             THEN [exc |-> "ValueError", model |-> NoModel]
             ELSE IF ~HasKey(cfg.items, "weightsManifest")
             THEN [exc |-> "", model |-> [loaded |-> TRUE, topology |-> cfg.items, weights |-> <<>>]]
             ELSE LET m == GetItem(cfg.items, "weightsManifest")
                  IN  IF m.t # "list" \/ \E i \in 1..Len(m.l) : m.l[i].t # "obj" \/ ~m.l[i].hasPaths
                      THEN [exc |-> "ValueError", model |-> NoModel]
                      ELSE IF \E i \in 1..Len(m.l) : \E j \in 1..Len(m.l[i].paths) :
                                  m.l[i].paths[j] \notin DOMAIN files
                      THEN [exc |-> "FileNotFoundError", model |-> NoModel]
                      ELSE [exc |-> "",
                            model |-> [loaded |-> TRUE, topology |-> cfg.items,
                                       weights |-> [i \in 1..Len(m.l) |->
                                           [j \in 1..Len(m.l[i].paths) |->
                                               files[m.l[i].paths[j]].data]]]]

(***************************************************************************)
(* Responses.                                                              *)
(***************************************************************************)
NoHandle == [kind |-> "none", dir |-> None, name |-> "", data |-> NoBytes]
NoResponse ==
    [status |-> 0, mimetype |-> "", download_name |-> "", error |-> "", file |-> NoHandle]
\* jsonify({'error': msg}), status
JsonError(msg, status) ==
    [status |-> status, mimetype |-> "application/json", download_name |-> "",
     error |-> msg, file |-> NoHandle]
MissingDependency(name) ==
    IF name = "tensorflow"
    THEN "Missing dependency: No module named 'tensorflow'. Install with: pip install tensorflow tensorflowjs"
    ELSE "Missing dependency: No module named 'tensorflowjs'. Install with: pip install tensorflow tensorflowjs"

\* a response that remembers the path and opens it when the body is sent
OpenFileLazy(f, d, name) ==
    IF d \in DOMAIN f /\ name \in DOMAIN f[d].files
    THEN [kind |-> "path", dir |-> d, name |-> name, data |-> NoBytes]
    ELSE NoHandle

\* open(path, 'rb'): the file object keeps the file's content reachable
\* after the directory entry is removed
OpenFile(f, d, name) ==
    IF d \in DOMAIN f /\ name \in DOMAIN f[d].files
    THEN [kind |-> "fd", dir |-> d, name |-> name, data |-> f[d].files[name].data]
    ELSE NoHandle

\* send_file(path, mimetype=..., as_attachment=True, download_name=...):
\* stats and opens the file at once
SendFile(f, d, name) ==
    LET h == OpenFile(f, d, name)
    IN  IF h.kind = "none" THEN [exc |-> "FileNotFoundError", response |-> NoResponse]
        ELSE [exc |-> "",
              response |-> [status |-> 200, mimetype |-> "application/octet-stream",
                            download_name |-> "model.tflite", error |-> "", file |-> h]]

NoSent == [status |-> 0, mimetype |-> "", download_name |-> "", error |-> "", body |-> NoBytes]

(***************************************************************************)
(* State.                                                                  *)
(***************************************************************************)
VARIABLES
    libs,       \* which external libraries the interpreter can import
    request,    \* request[r]: the POST /convert request r
    env,        \* env[r]: the call the environment makes fail for r
    fs,         \* the temp directory: fs[d] exists for d in DOMAIN fs
    pc,         \* pc[r]: where convert_model is for r
    local,      \* local[r]: convert_model's local variables
    response,   \* response[r]: what convert_model returned
    sent,       \* sent[r]: what the client of r received
    steps,      \* steps[r]: the steps of convert_model completed for r
    touched,    \* touched[r]: creators of the directories r accessed
    health_response \* the last GET /health response

vars == <<libs, request, env, fs, pc, local, response, sent, steps, touched, health_response>>

NoLocal ==
    [tmp_dir |-> None, quantize |-> FALSE, metadata |-> NoValue, model_config |-> NoValue,
     model |-> NoModel, converter |-> DefaultConverter, tflite_model |-> NoBytes,
     exc |-> "", rmtree |-> "not run"]

NoHealth == [status |-> "", server |-> "", tensorflow |-> "", tensorflowjs |-> ""]

\* requests `arriving` are drawn from Inputs, the others are never sent
InitWith(Libs, arriving, Inputs, Fails) ==
    /\ libs \in Libs
    /\ \E q \in [arriving -> Inputs] :
          request = [r \in Reqs |-> IF r \in arriving THEN q[r] ELSE CanonRequest]
    /\ \E e \in [arriving -> Fails] :
          env = [r \in Reqs |-> IF r \in arriving THEN e[r] ELSE "none"]
    /\ fs = <<>>
    /\ pc = [r \in Reqs |-> IF r \in arriving THEN "import" ELSE "unsent"]
    /\ local = [r \in Reqs |-> NoLocal]
    /\ response = [r \in Reqs |-> NoResponse]
    /\ sent = [r \in Reqs |-> NoSent]
    /\ steps = [r \in Reqs |-> <<>>]
    /\ touched = [r \in Reqs |-> {}]
    /\ health_response = NoHealth

(***************************************************************************)
(* File system operations.                                                 *)
(***************************************************************************)
\* one fixed scratch directory for every request
MkdtempFixedName(f) == {1}

\* the names tempfile.mkdtemp may return: those of no existing directory
MkdtempNames(f) == DirNames \ DOMAIN f

MakeDir(f, d, r) == IF d \in DOMAIN f THEN f ELSE (d :> [owner |-> r, files |-> <<>>]) @@ f

WriteFile(f, d, name, data, r) ==
    [f EXCEPT ![d].files = (name :> [data |-> data, writer |-> r]) @@ @]

RemoveDir(f, d) == [x \in DOMAIN f \ {d} |-> f[x]]

\* shutil.rmtree(d): the directory is gone, or the removal raised and the
\* directory is left: at the first file (all are left) or at the final rmdir
Rmtree(f, d) ==
    [ok : {TRUE}, fs : {RemoveDir(f, d)}]
    \cup [ok : {FALSE},
          fs : {[f EXCEPT ![d].files = [n \in keep |-> f[d].files[n]]] :
                   keep \in {DOMAIN f[d].files, {}}}]

Path(r) == local[r].tmp_dir
Exists(d) == d \in DOMAIN fs
Touch(r, d) == [touched EXCEPT ![r] = IF d \in DOMAIN fs THEN @ \cup {fs[d].owner} ELSE @]

(***************************************************************************)
(* convert_model, step by step.                                            *)
(***************************************************************************)
Goto(r, l) == pc' = [pc EXCEPT ![r] = l]
Did(r, s) == steps' = [steps EXCEPT ![r] = Append(@, s)]
\* an exception raised inside the try block: on to `except Exception as e`
Raise(r, e) ==
    /\ pc' = [pc EXCEPT ![r] = "except"]
    /\ local' = [local EXCEPT ![r].exc = e]
\* a return inside the try block: the finally clause runs before it takes effect
Return(r, resp) ==
    /\ pc' = [pc EXCEPT ![r] = "finally"]
    /\ response' = [response EXCEPT ![r] = resp]

\* lines 41-48
Import(r) ==
    /\ pc[r] = "import"
    /\ IF ImportLib(libs, "tensorflow").exc # ""
       THEN Return(r, JsonError(MissingDependency("tensorflow"), 500))
       ELSE IF ImportLib(libs, "tensorflowjs").exc # ""
       THEN Return(r, JsonError(MissingDependency("tensorflowjs"), 500))
       ELSE Goto(r, "validate") /\ UNCHANGED response
    /\ UNCHANGED <<libs, request, env, fs, local, sent, steps, touched, health_response>>

\* a validation that forgets the second upload
ValidatedModelOnly(q) ==
    IF ~q.has_model_json THEN [ok |-> FALSE, error |-> "Missing model_json file"]
    ELSE [ok |-> TRUE, error |-> ""]

\* lines 51-54: where convert_model goes from the validation
Validated(q) ==
    IF ~q.has_model_json THEN [ok |-> FALSE, error |-> "Missing model_json file"]
    ELSE IF ~q.has_weights_bin THEN [ok |-> FALSE, error |-> "Missing weights_bin file"]
    ELSE [ok |-> TRUE, error |-> ""]

Validate(r) ==
    /\ pc[r] = "validate"
    /\ LET v == Validated(request[r])
       IN  IF v.ok
           THEN Goto(r, "args") /\ Did(r, "validate") /\ UNCHANGED response
           ELSE Return(r, JsonError(v.error, 400)) /\ UNCHANGED steps
    /\ UNCHANGED <<libs, request, env, fs, local, sent, touched, health_response>>

\* lines 56-65
ReadArgs(r) ==
    /\ pc[r] = "args"
    /\ LET md == ParseMetadata(request[r].metadata)
       IN  IF md.exc # ""
           THEN Raise(r, md.exc)
           ELSE /\ Goto(r, "mkdtemp")
                /\ local' = [local EXCEPT ![r].quantize = QuantizeFlag(request[r].quantize),
                                          ![r].metadata = md.value]
    /\ UNCHANGED <<libs, request, env, fs, response, sent, steps, touched, health_response>>

\* line 68
Mkdtemp(r) ==
    /\ pc[r] = "mkdtemp"
    /\ IF env[r] = "mkdtemp" \/ MkdtempNames(fs) = {}
       THEN Raise(r, "OSError") /\ UNCHANGED <<fs, touched>>
       ELSE \E d \in MkdtempNames(fs) :
               /\ fs' = MakeDir(fs, d, r)
               /\ touched' = [touched EXCEPT ![r] = @ \cup {fs'[d].owner}]
               /\ local' = [local EXCEPT ![r].tmp_dir = d]
               /\ Goto(r, "save_model")
    /\ UNCHANGED <<libs, request, env, response, sent, steps, health_response>>

\* line 73
SaveModel(r) ==
    /\ pc[r] = "save_model"
    /\ IF ~Exists(Path(r))
       THEN Raise(r, "FileNotFoundError") /\ UNCHANGED <<fs, touched>>
       ELSE /\ fs' = WriteFile(fs, Path(r), "model.json", request[r].model_json, r)
            /\ touched' = Touch(r, Path(r))
            /\ Goto(r, "save_weights")
            /\ UNCHANGED local
    /\ UNCHANGED <<libs, request, env, response, sent, steps, health_response>>

\* line 74
SaveWeights(r) ==
    /\ pc[r] = "save_weights"
    /\ IF env[r] = "save"
       THEN Raise(r, "OSError") /\ UNCHANGED <<fs, touched, steps>>
       ELSE IF ~Exists(Path(r))
       THEN Raise(r, "FileNotFoundError") /\ UNCHANGED <<fs, touched, steps>>
       ELSE /\ fs' = WriteFile(fs, Path(r), "weights.bin", request[r].weights_bin, r)
            /\ touched' = Touch(r, Path(r))
            /\ Goto(r, "parse")
            /\ Did(r, "stage")
            /\ UNCHANGED local
    /\ UNCHANGED <<libs, request, env, response, sent, health_response>>

\* lines 77-78
Parse(r) ==
    /\ pc[r] = "parse"
    /\ IF ~Exists(Path(r)) \/ "model.json" \notin DOMAIN fs[Path(r)].files
       THEN Raise(r, "FileNotFoundError")
       ELSE LET res == JsonLoads(fs[Path(r)].files["model.json"].data)
            IN  IF res.exc # ""
                THEN Raise(r, res.exc)
                ELSE /\ local' = [local EXCEPT ![r].model_config = res.value]
                     /\ Goto(r, "patch")
    /\ touched' = Touch(r, Path(r))
    /\ UNCHANGED <<libs, request, env, fs, response, sent, steps, health_response>>

\* lines 81-90
Patch(r) ==
    /\ pc[r] = "patch"
    /\ LET p == PatchManifest(local[r].model_config)
           f == IF p.rewrite /\ Exists(Path(r))
                THEN WriteFile(fs, Path(r), "model.json", JsonDump(p.value), r)
                ELSE fs
       IN  IF p.exc # ""
           THEN Raise(r, p.exc) /\ UNCHANGED <<fs, steps>>
           ELSE IF p.rewrite /\ ~Exists(Path(r))
           THEN Raise(r, "FileNotFoundError") /\ UNCHANGED <<fs, steps>>
           ELSE /\ fs' = f
                /\ IF TopologyKeys(p.value) # ""
                   THEN /\ pc' = [pc EXCEPT ![r] = "except"]
                        /\ local' = [local EXCEPT ![r].exc = TopologyKeys(p.value),
                                                  ![r].model_config = p.value]
                        /\ UNCHANGED steps
                   ELSE IF ~Exists(Path(r)) \/ "weights.bin" \notin DOMAIN f[Path(r)].files
                   THEN /\ pc' = [pc EXCEPT ![r] = "except"]
                        /\ local' = [local EXCEPT ![r].exc = "FileNotFoundError",
                                                  ![r].model_config = p.value]
                        /\ UNCHANGED steps
                   ELSE /\ local' = [local EXCEPT ![r].model_config = p.value]
                        /\ Goto(r, "load")
                        /\ Did(r, "patch")
    /\ touched' = Touch(r, Path(r))
    /\ UNCHANGED <<libs, request, env, response, sent, health_response>>

\* a loader whose failure is swallowed: the conversion goes on without a model
LoadIgnoringFailure(r) ==
    /\ pc[r] = "load"
    /\ LET res == IF Exists(Path(r)) THEN LoadKerasModel(fs[Path(r)].files)
                  ELSE [exc |-> "FileNotFoundError", model |-> NoModel]
       IN  /\ local' = [local EXCEPT ![r].model = res.model]
           /\ Goto(r, "convert")
           /\ IF env[r] = "load" \/ res.exc # "" THEN UNCHANGED steps ELSE Did(r, "load")
    /\ touched' = Touch(r, Path(r))
    /\ UNCHANGED <<libs, request, env, fs, response, sent, health_response>>

\* lines 93-94
Load(r) ==
    /\ pc[r] = "load"
    /\ LET res == IF Exists(Path(r)) THEN LoadKerasModel(fs[Path(r)].files)
                  ELSE [exc |-> "FileNotFoundError", model |-> NoModel]
       IN  IF env[r] = "load"
           THEN Raise(r, "LoadError") /\ UNCHANGED steps
           ELSE IF res.exc # ""
           THEN Raise(r, res.exc) /\ UNCHANGED steps
           ELSE /\ local' = [local EXCEPT ![r].model = res.model]
                /\ Goto(r, "convert")
                /\ Did(r, "load")
    /\ touched' = Touch(r, Path(r))
    /\ UNCHANGED <<libs, request, env, fs, response, sent, health_response>>

\* lines 98-108
Convert(r) ==
    /\ pc[r] = "convert"
    /\ LET c == ConfigureConverter(local[r].quantize)
       IN  IF env[r] = "convert"
           THEN /\ pc' = [pc EXCEPT ![r] = "except"]
                /\ local' = [local EXCEPT ![r].exc = "ConverterError", ![r].converter = c]
                /\ UNCHANGED steps
           ELSE /\ local' = [local EXCEPT ![r].converter = c,
                                          ![r].tflite_model = TFLiteBytes(local[r].model, c)]
                /\ Goto(r, "write")
                /\ Did(r, "convert")
    /\ UNCHANGED <<libs, request, env, fs, response, sent, touched, health_response>>

\* lines 111-113
WriteOutput(r) ==
    /\ pc[r] = "write"
    /\ IF env[r] = "write"
       THEN Raise(r, "OSError") /\ UNCHANGED <<fs, touched>>
       ELSE IF ~Exists(Path(r))
       THEN Raise(r, "FileNotFoundError") /\ UNCHANGED <<fs, touched>>
       ELSE /\ fs' = WriteFile(fs, Path(r), "model.tflite", local[r].tflite_model, r)
            /\ touched' = Touch(r, Path(r))
            /\ Goto(r, "send_file")
            /\ UNCHANGED local
    /\ UNCHANGED <<libs, request, env, response, sent, steps, health_response>>

\* lines 115-120
Send(r) ==
    /\ pc[r] = "send_file"
    /\ LET res == SendFile(fs, Path(r), "model.tflite")
       IN  IF env[r] = "send"
           THEN Raise(r, "OSError") /\ UNCHANGED <<response, steps>>
           ELSE IF res.exc # ""
           THEN Raise(r, res.exc) /\ UNCHANGED <<response, steps>>
           ELSE Return(r, res.response) /\ Did(r, "respond") /\ UNCHANGED local
    /\ touched' = Touch(r, Path(r))
    /\ UNCHANGED <<libs, request, env, fs, sent, health_response>>

\* an except clause that returns the error body without the status
ExceptNoStatus(r) ==
    /\ pc[r] = "except"
    /\ Return(r, JsonError(local[r].exc, 200))
    /\ UNCHANGED <<libs, request, env, fs, local, sent, steps, touched, health_response>>

\* lines 122-125
Except(r) ==
    /\ pc[r] = "except"
    /\ Return(r, JsonError(local[r].exc, 500))
    /\ UNCHANGED <<libs, request, env, fs, local, sent, steps, touched, health_response>>

\* a handler with no cleanup
NeedsCleanupNever(d, f) == FALSE

\* lines 127-133: whether the finally clause calls shutil.rmtree
NeedsCleanup(d, f) == d # None /\ d \in DOMAIN f

Finally(r) ==
    /\ pc[r] = "finally"
    /\ IF NeedsCleanup(Path(r), fs)
       THEN \E out \in Rmtree(fs, Path(r)) :
               /\ fs' = out.fs
               /\ local' = [local EXCEPT ![r].rmtree = IF out.ok THEN "removed" ELSE "raised"]
               /\ touched' = Touch(r, Path(r))
               /\ Did(r, "delete")
       ELSE UNCHANGED <<fs, local, touched, steps>>
    /\ Goto(r, "respond")
    /\ UNCHANGED <<libs, request, env, response, sent, health_response>>

\* what the server writes to the client once convert_model has returned: a
\* file response streams the content of the file object it holds
Body(resp, f) ==
    CASE resp.file.kind = "fd" -> resp.file.data
      [] resp.file.kind = "path" ->
           IF resp.file.dir \in DOMAIN f /\ resp.file.name \in DOMAIN f[resp.file.dir].files
           THEN f[resp.file.dir].files[resp.file.name].data
           ELSE NoBytes
      [] OTHER -> NoBytes

Respond(r) ==
    /\ pc[r] = "respond"
    /\ sent' = [sent EXCEPT ![r] =
                  [status |-> response[r].status, mimetype |-> response[r].mimetype,
                   download_name |-> response[r].download_name,
                   error |-> response[r].error, body |-> Body(response[r], fs)]]
    /\ Goto(r, "done")
    /\ UNCHANGED <<libs, request, env, fs, local, response, steps, touched, health_response>>

(***************************************************************************)
(* health, lines 136-150.                                                  *)
(***************************************************************************)
\* both imports under one try: the first failure reports both as missing
HealthStatusOneTry(l) ==
    [status |-> "ok", server |-> "tfjs-to-tflite-converter",
     tensorflow |-> IF ImportLib(l, "tensorflow").exc # ""
                    THEN "not installed" ELSE ImportLib(l, "tensorflow").version,
     tensorflowjs |-> IF ImportLib(l, "tensorflow").exc # "" \/ ImportLib(l, "tensorflowjs").exc # ""
                      THEN "not installed" ELSE ImportLib(l, "tensorflowjs").version]

HealthStatus(l) ==
    [status |-> "ok", server |-> "tfjs-to-tflite-converter",
     tensorflow |-> IF ImportLib(l, "tensorflow").exc # ""
                    THEN "not installed" ELSE ImportLib(l, "tensorflow").version,
     tensorflowjs |-> IF ImportLib(l, "tensorflowjs").exc # ""
                      THEN "not installed" ELSE ImportLib(l, "tensorflowjs").version]

Health ==
    /\ health_response' = HealthStatus(libs)
    /\ UNCHANGED <<libs, request, env, fs, pc, local, response, sent, steps, touched>>

(***************************************************************************)
(* Specifications.                                                         *)
(***************************************************************************)
\* one step of convert_model for request r
Step(r) ==
    \/ Import(r) \/ Validate(r) \/ ReadArgs(r)
    \/ Mkdtemp(r) \/ SaveModel(r) \/ SaveWeights(r)
    \/ Parse(r) \/ Patch(r) \/ Load(r) \/ Convert(r)
    \/ WriteOutput(r) \/ Send(r) \/ Except(r) \/ Finally(r) \/ Respond(r)

Next == (\E r \in Reqs : Step(r)) \/ Health

\* one request, every combination of its parts and of the environment
Init ==
    InitWith(LibStates, {1},
             RequestsOver(SmallDocs, WeightBlobs, MetadataFields, QuantizeArgs), FailPoints)
Spec == Init /\ [][Next]_vars

\* one request, every model.json the bounds allow
InitDocs ==
    InitWith({AllInstalled}, {1}, RequestsOver(RichDocs, {"blob_a"}, {NoField}, {NoArg}),
             FailPoints)
SpecDocs == InitDocs /\ [][Next]_vars

\* every request in flight at once
InitConcurrent ==
    InitWith({AllInstalled}, Reqs, {CanonRequest}, {"none", "load"})
SpecConcurrent == InitConcurrent /\ [][Next]_vars

\* two requests that differ in nothing but the metadata field, under the
\* same environment
InitPair ==
    /\ InitWith({AllInstalled}, {1, 2},
                RequestsOver({ExportedDoc}, {"blob_a"}, MetadataFields, {NoArg, "true"}),
                {"none"})
    /\ request[1] = [request[2] EXCEPT !.metadata = request[1].metadata]
    /\ env[1] = env[2]
SpecPair == InitPair /\ [][Next]_vars

(***************************************************************************)
(* Properties.                                                             *)
(***************************************************************************)
Done(r) == pc[r] = "done"
Range(q) == {q[i] : i \in 1..Len(q)}
IsPrefix(a, b) == Len(a) <= Len(b) /\ SubSeq(b, 1, Len(a)) = a
MissingUpload(r) == ~request[r].has_model_json \/ ~request[r].has_weights_bin
MissingMessage(r) ==
    IF ~request[r].has_model_json THEN "Missing model_json file" ELSE "Missing weights_bin file"
Importable == libs.tensorflow # LibAbsent /\ libs.tensorflowjs # LibAbsent
\* the directories on disk that were created for request r
ScratchOf(r) == {d \in DOMAIN fs : fs[d].owner = r}

\* C1 as stated: a request that lacks model_json or weights_bin is answered
\* 400 with the message naming the missing upload, whatever the state of the
\* server, importable libraries or not.
C1_MissingUploadAlways400 ==
    \A r \in Reqs :
        Done(r) /\ MissingUpload(r) =>
            sent[r].status = 400 /\ sent[r].error = MissingMessage(r)

\* C1, amended: when both libraries import, a request that lacks model_json or
\* weights_bin is answered 400 with a JSON error naming the missing upload
\* (model_json first); when a library does not import, the request is
\* answered 500 'Missing dependency' before the uploads are looked at.
C1_MissingUpload400WhenImportable ==
    \A r \in Reqs :
        Done(r) /\ MissingUpload(r) =>
            IF Importable
            THEN /\ sent[r].status = 400
                 /\ sent[r].mimetype = "application/json"
                 /\ sent[r].error = MissingMessage(r)
            ELSE /\ sent[r].status = 500
                 /\ sent[r].error \in {MissingDependency("tensorflow"),
                                       MissingDependency("tensorflowjs")}

C1_Witness ==
    \E r \in Reqs :
        /\ Done(r) /\ Importable
        /\ request[r].has_model_json /\ ~request[r].has_weights_bin
        /\ sent[r].status = 400 /\ sent[r].error = "Missing weights_bin file"

\* C2 as stated: once a request has completed, with whatever response, no
\* scratch directory created for it is left on disk.
C2_ScratchAlwaysGone ==
    \A r \in Reqs : Done(r) => ScratchOf(r) = {}

\* C2, amended: once a request has completed, shutil.rmtree has been called
\* on its scratch directory if it created one, and the directory and its
\* files are gone unless that call itself raised (the exception is swallowed
\* and the directory may stay).
C2_ScratchGoneUnlessRmtreeRaised ==
    \A r \in Reqs :
        Done(r) =>
            /\ local[r].tmp_dir # None => local[r].rmtree \in {"removed", "raised"}
            /\ local[r].tmp_dir = None => local[r].rmtree = "not run"
            /\ local[r].rmtree # "raised" => ScratchOf(r) = {}

C2_Witness ==
    \E r \in Reqs :
        /\ Done(r) /\ local[r].tmp_dir # None /\ local[r].rmtree = "removed"
        /\ sent[r].status = 500 /\ ScratchOf(r) = {}

\* C3: an exception raised by a step after the validation (staging, parsing
\* model.json, patching, the loader, the converter, writing or sending the
\* output) never leaves the handler: the handler goes on to its except and
\* finally clauses, can always take its next step, and the client receives
\* status 500 with a JSON body whose 'error' is the exception's message.
C3_ExceptionBecomes500 ==
    \A r \in Reqs :
        /\ pc[r] \notin {"done", "unsent"} => ENABLED Step(r)
        /\ local[r].exc # "" =>
              /\ pc[r] \in {"except", "finally", "respond", "done"}
              /\ pc[r] # "except" => response[r] = JsonError(local[r].exc, 500)
              /\ Done(r) => /\ sent[r].status = 500
                            /\ sent[r].mimetype = "application/json"
                            /\ sent[r].error = local[r].exc
                            /\ sent[r].body = NoBytes

C3_Witness ==
    \E r \in Reqs :
        /\ Done(r) /\ env[r] = "convert" /\ local[r].exc = "ConverterError"
        /\ sent[r].status = 500 /\ sent[r].error = "ConverterError"

\* C4 as stated: two requests that differ in nothing but the metadata field
\* (absent, well-formed or malformed), handled under the same environment,
\* receive the same status and body.
C4_MetadataNeverInfluences ==
    \A r1, r2 \in Reqs :
        /\ Done(r1) /\ Done(r2)
        /\ request[r1] = [request[r2] EXCEPT !.metadata = request[r1].metadata]
        /\ env[r1] = env[r2]
        => sent[r1] = sent[r2]

UsingScratch(r) ==
    /\ local[r].tmp_dir # None
    /\ pc[r] \in {"save_model", "save_weights", "parse", "patch", "load", "convert",
                  "write", "send_file", "except", "finally"}

\* C6: under every interleaving, the requests in flight hold pairwise
\* distinct scratch directories, each still on disk and created by the
\* request that holds it; every file in a directory was written by the
\* request that created the directory; and no request has read, written or
\* removed anything in a directory created for another request.
C6_ScratchDirsIsolated ==
    /\ \A r1, r2 \in Reqs :
          r1 # r2 /\ UsingScratch(r1) /\ UsingScratch(r2) =>
              local[r1].tmp_dir # local[r2].tmp_dir
    /\ \A r \in Reqs :
          /\ UsingScratch(r) =>
                local[r].tmp_dir \in DOMAIN fs /\ fs[local[r].tmp_dir].owner = r
          /\ touched[r] \subseteq {r}
    /\ \A d \in DOMAIN fs : \A n \in DOMAIN fs[d].files :
          fs[d].files[n].writer = fs[d].owner

C6_Witness ==
    \E r1, r2 \in Reqs :
        /\ r1 # r2 /\ pc[r1] = "load" /\ pc[r2] = "finally"
        /\ local[r1].tmp_dir # None /\ local[r2].tmp_dir # None
        /\ local[r1].tmp_dir # local[r2].tmp_dir

\* what INT8 quantization asks of the converter: the default optimization,
\* and no float16 among the supported types
Int8Quantization(c) ==
    c.optimizations = <<"DEFAULT">> /\ "float16" \notin Range(c.supported_types)

\* C7 as stated: quantize=true (in any case) configures the converter for
\* INT8 quantization; an absent parameter or any other value leaves the
\* converter's optimization and precision settings at their defaults.
C7_QuantizeSelectsInt8 ==
    \A r \in Reqs :
        "convert" \in Range(steps[r]) =>
            IF request[r].quantize \in {"true", "True", "TRUE"}
            THEN Int8Quantization(local[r].converter)
            ELSE local[r].converter = DefaultConverter

\* C8: every /health response has status 'ok' and reports, for each library
\* on its own, the installed version or 'not installed'.
C8_HealthReportsEachLibrary ==
    health_response # NoHealth =>
        /\ health_response.status = "ok"
        /\ health_response.tensorflow =
              (IF libs.tensorflow = LibAbsent THEN "not installed" ELSE libs.tensorflow)
        /\ health_response.tensorflowjs =
              (IF libs.tensorflowjs = LibAbsent THEN "not installed" ELSE libs.tensorflowjs)

C8_Witness ==
    /\ libs.tensorflow = LibAbsent /\ libs.tensorflowjs = TfjsVersion
    /\ health_response.status = "ok"
    /\ health_response.tensorflow = "not installed"
    /\ health_response.tensorflowjs = TfjsVersion

StepOrder == <<"validate", "stage", "patch", "load", "convert", "respond">>
NotDelete(x) == x # "delete"

\* C9: the steps of a request are completed in the order validate, stage,
\* patch, load, convert, respond, each only after all the earlier ones
\* succeeded; the deletion comes last, once, and exactly when a scratch
\* directory was created.  A request rejected at the validation has no
\* scratch directory and no model; there are converter bytes only for a
\* loaded model.
C9_StepsInOrder ==
    \A r \in Reqs :
        LET s == steps[r] IN
        /\ IsPrefix(SelectSeq(s, NotDelete), StepOrder)
        /\ \A i \in 1..Len(s) : s[i] = "delete" => i = Len(s)
        /\ "validate" \in Range(s) => ~MissingUpload(r) /\ Importable
        /\ "validate" \notin Range(s) =>
              local[r].tmp_dir = None /\ ScratchOf(r) = {} /\ ~local[r].model.loaded
        /\ local[r].tmp_dir # None /\ pc[r] \notin {"save_model", "save_weights"} =>
              "stage" \in Range(s) \/ local[r].exc # ""
        /\ local[r].model.loaded <=> "load" \in Range(s)
        /\ local[r].tflite_model.tflite <=> "convert" \in Range(s)
        /\ response[r].status = 200 <=> "respond" \in Range(s)
        /\ pc[r] \in {"respond", "done"} =>
              ("delete" \in Range(s) <=> local[r].tmp_dir # None)
        /\ "delete" \in Range(s) => pc[r] \in {"respond", "done"}

C9_Witness ==
    \E r \in Reqs : Done(r) /\ steps[r] = StepOrder \o <<"delete">>

\* C10: when the loader is about to be called, weights.bin with the uploaded
\* weights is beside model.json; if the uploaded document has a
\* 'weightsManifest', the staged document has the same keys in the same
\* order, the same value for every other key, and a manifest whose entries
\* are those uploaded with 'paths' set to exactly ['weights.bin']; if it has
\* none, the staged file is the uploaded text itself.
C10_StagedModelAtLoad ==
    \A r \in Reqs :
        pc[r] = "load" =>
            /\ local[r].tmp_dir \in DOMAIN fs
            /\ LET files == fs[local[r].tmp_dir].files
                   up == JsonLoads(request[r].model_json).value.items
               IN  /\ {"model.json", "weights.bin"} \subseteq DOMAIN files
                   /\ files["weights.bin"].data = request[r].weights_bin
                   /\ IF HasKey(up, "weightsManifest")
                      THEN LET res == JsonLoads(files["model.json"].data)
                               st == res.value.items
                           IN  /\ res.exc = "" /\ res.value.kind = "dict"
                               /\ Len(st) = Len(up)
                               /\ \A i \in 1..Len(up) :
                                     /\ st[i][1] = up[i][1]
                                     /\ up[i][1] # "weightsManifest" => st[i][2] = up[i][2]
                                     /\ up[i][1] = "weightsManifest" =>
                                           /\ st[i][2].t = up[i][2].t
                                           /\ st[i][2].a = up[i][2].a
                                           /\ Len(st[i][2].l) = Len(up[i][2].l)
                                           /\ \A j \in 1..Len(up[i][2].l) :
                                                 st[i][2].l[j] =
                                                    [up[i][2].l[j] EXCEPT
                                                        !.hasPaths = TRUE,
                                                        !.paths = <<"weights.bin">>]
                      ELSE files["model.json"].data = request[r].model_json

C10_Witness ==
    \E r \in Reqs :
        /\ pc[r] = "load"
        /\ request[r].model_json =
              ObjectText(TopoPair \o ManifestPair(JList(<<E2, E3>>)) \o TopoPair2, TRUE)
        /\ fs[local[r].tmp_dir].files["model.json"].data =
              ObjectText(<< <<"modelTopology", Atom("sequential_2")>>,
                            <<"weightsManifest",
                              JList(<<EntryObj(TRUE, <<"weights.bin">>, "dense/bias"),
                                      EntryObj(TRUE, <<"weights.bin">>, "dense/kernel")>>)>> >>,
                         FALSE)

====
